---- MODULE Spec2Model ----
(***************************************************************************)
(* A model of rcore-fs-sefs (src/rcore-fs-sefs/src/lib.rs): the SEFS file  *)
(* system engine.  The state is the filesystem object (superblock, free    *)
(* map, weak inode cache), the heap of INodeImpl instances, the Storage    *)
(* device (one backing file per inode id) and the meta-file.               *)
(*                                                                         *)
(* Handlers are written in state-passing style: an operator takes the      *)
(* state record `s` and returns the state after the Rust code ran, so a    *)
(* handler's body reads in the order of the source.  A panic (assert!,     *)
(* unwrap on Err) sets s.panicked and every later step is skipped.         *)
(***************************************************************************)
EXTENDS Integers, Sequences, FiniteSets, TLC

VARIABLES
    super_block,    \* SEFS.super_block : Dirty<SuperBlock>
    free_map,       \* SEFS.free_map    : Dirty<BitVec>, TRUE = free
    inodes,         \* SEFS.inodes      : id -> Weak<INodeImpl>
    heap,           \* the INodeImpl instances, heap[id][k]
    device,         \* Storage: the backing file of each inode id
    meta_file,      \* SEFS.meta_file: superblock, free map, inode records
    panicked,       \* a panic ended the program
    threads         \* the concurrent client's threads: pc and locals

vars == <<super_block, free_map, inodes, heap, device, meta_file, panicked, threads>>

----------------------------------------------------------------------------
(* Bounds and constants *)

BLKBITS == 5
BLKN_SUPER == 0
BLKN_FREEMAP == 1
BLKN_ROOT == 2
MaxInst == 2
MaxHandles == 1
MaxLen == 2
MaxEntries == 3
NThreads == 2

UserNames == {"a", "b"}
Names == {".", ".."} \cup UserNames
FileTypes == {"File", "Dir"}

BlockIds == 0 .. (BLKBITS - 1)
INodeIds == BLKN_ROOT .. (BLKBITS - 1)
Slots == 1 .. MaxInst
Threads == 1 .. NThreads

Min(S) == CHOOSE x \in S : \A y \in S : x <= y

----------------------------------------------------------------------------
(* On-disk structs *)

DiskINode(type_) == [size |-> 0, type_ |-> type_, blocks |-> 0, nlinks |-> 0]
new_file == DiskINode("File")
new_dir == DiskINode("Dir")
ZeroINode == DiskINode("Invalid")
DiskEntry(id, name) == [id |-> id, name |-> name]
ZeroEntry == DiskEntry(0, "")

NoObj == [alive |-> FALSE, disk_inode |-> ZeroINode, dirty |-> FALSE, strong |-> 0]
NoWeak == [present |-> FALSE, k |-> 0]
NoFile == [exists |-> FALSE, len |-> 0, ents |-> << >>]
Ref(id, k) == [id |-> id, k |-> k]
NoRef == Ref(0, 0)

----------------------------------------------------------------------------
(* State-passing plumbing *)

Cur ==
    [super_block |-> super_block, free_map |-> free_map, inodes |-> inodes,
     heap |-> heap, device |-> device, meta_file |-> meta_file,
     removed |-> << >>, panicked |-> panicked, capped |-> FALSE]

Install(s) ==
    /\ super_block' = s.super_block
    /\ free_map' = s.free_map
    /\ inodes' = s.inodes
    /\ heap' = s.heap
    /\ device' = s.device
    /\ meta_file' = s.meta_file
    /\ panicked' = s.panicked

Panic(s) == [s EXCEPT !.panicked = TRUE]
ObjOf(s, r) == s.heap[r.id][r.k]
\* What a handler returns: the state it leaves, the error kind ("Ok" for none)
\* and the handle it hands out.  s.removed logs its Storage.remove calls.
Result(s, err, r) ==
    [st |-> s, err |-> IF s.panicked THEN "panic" ELSE err, ref |-> r, same |-> FALSE]
\* An early return: the handler has touched nothing.
Fail(s, err) == [st |-> s, err |-> err, ref |-> NoRef, same |-> TRUE]

----------------------------------------------------------------------------
(* Helper methods for File *)

read_ok(s, id, i) == i < Len(s.device[id].ents)
read_direntry(s, id, i) == s.device[id].ents[i + 1]

write_direntry(s, id, i, entry) ==
    LET ents == s.device[id].ents
        padded == IF i >= Len(ents)
                  THEN ents \o [j \in 1 .. (i + 1 - Len(ents)) |-> ZeroEntry]
                  ELSE ents
    IN [s EXCEPT !.device[id].ents = [padded EXCEPT ![i + 1] = entry]]

set_len_entries(s, id, n) ==
    LET ents == s.device[id].ents
    IN [s EXCEPT !.device[id].ents =
            IF n <= Len(ents) THEN SubSeq(ents, 1, n)
            ELSE ents \o [j \in 1 .. (n - Len(ents)) |-> ZeroEntry]]

----------------------------------------------------------------------------
(* Dirty<T>: any mutable access sets the flag, sync() clears it *)

Dirty_new(v) == [val |-> v, dirty |-> FALSE]
Dirty_new_dirty(v) == [val |-> v, dirty |-> TRUE]

MAGIC == "SEFS"
SuperBlock(unused) == [magic |-> MAGIC, blocks |-> BLKBITS, unused_blocks |-> unused]
ZeroSuperBlock == [magic |-> "", blocks |-> 0, unused_blocks |-> 0]

----------------------------------------------------------------------------
(* Storage port *)

device_create(s, id) ==
    [s EXCEPT !.device[id] = [exists |-> TRUE, len |-> 0, ents |-> << >>]]

device_open_ok(s, id) == s.device[id].exists

device_remove(s, id) ==
    IF s.panicked THEN s
    ELSE IF ~s.device[id].exists THEN Panic(s)
    ELSE [s EXCEPT !.device[id] = NoFile, !.removed = Append(@, id)]

----------------------------------------------------------------------------
(* INodeImpl: directory entry internals *)

\* The first slot i < blocks whose entry has the name; reading a slot past the
\* end of the backing file fails, and the unwrap panics.
get_file_inode_and_entry_id(s, r, name) ==
    LET blocks == ObjOf(s, r).disk_inode.blocks
        ents == s.device[r.id].ents
        cand == {i \in 0 .. (blocks - 1) : i >= Len(ents) \/ ents[i + 1].name = name}
    IN IF cand = {} THEN [found |-> FALSE, panic |-> FALSE, id |-> 0, entry_id |-> 0]
       ELSE IF Min(cand) >= Len(ents)
            THEN [found |-> FALSE, panic |-> TRUE, id |-> 0, entry_id |-> 0]
            ELSE [found |-> TRUE, panic |-> FALSE, id |-> ents[Min(cand) + 1].id,
                  entry_id |-> Min(cand)]

get_file_inode_id(s, r, name) == get_file_inode_and_entry_id(s, r, name)

\* dirent_init that writes the two entries in each other's slot
dirent_init_swapped(s, r, parent) ==
    LET s1 == [s EXCEPT !.heap[r.id][r.k].disk_inode.blocks = 2,
                        !.heap[r.id][r.k].dirty = TRUE]
        s2 == write_direntry(s1, r.id, 0, DiskEntry(parent, ".."))
    IN write_direntry(s2, r.id, 1, DiskEntry(r.id, "."))

dirent_init(s, r, parent) ==
    LET s1 == [s EXCEPT !.heap[r.id][r.k].disk_inode.blocks = 2,
                        !.heap[r.id][r.k].dirty = TRUE]
        s2 == write_direntry(s1, r.id, 0, DiskEntry(r.id, "."))
    IN write_direntry(s2, r.id, 1, DiskEntry(parent, ".."))

dirent_append(s, r, entry) ==
    LET total == ObjOf(s, r).disk_inode.blocks
        s1 == write_direntry(s, r.id, total, entry)
    IN [s1 EXCEPT !.heap[r.id][r.k].disk_inode.blocks = total + 1,
                  !.heap[r.id][r.k].dirty = TRUE]

\* dirent_remove that only truncates, without moving the last entry to slot id
dirent_remove_truncate(s, r, id) ==
    LET total == ObjOf(s, r).disk_inode.blocks
    IN IF total = 0 \/ ~read_ok(s, r.id, total - 1) THEN [st |-> s, err |-> "DeviceError"]
       ELSE [st |-> [set_len_entries(s, r.id, total - 1)
                        EXCEPT !.heap[r.id][r.k].disk_inode.blocks = @ - 1,
                               !.heap[r.id][r.k].dirty = TRUE],
             err |-> "Ok"]

dirent_remove(s, r, id) ==
    LET total == ObjOf(s, r).disk_inode.blocks
    IN IF total = 0 \/ ~read_ok(s, r.id, total - 1) THEN [st |-> s, err |-> "DeviceError"]
       ELSE LET last_direntry == read_direntry(s, r.id, total - 1)
                s1 == IF id # total - 1
                      THEN write_direntry(s, r.id, id, last_direntry)
                      ELSE s
                s2 == set_len_entries(s1, r.id, total - 1)
            IN [st |-> [s2 EXCEPT !.heap[r.id][r.k].disk_inode.blocks = @ - 1,
                                  !.heap[r.id][r.k].dirty = TRUE],
                err |-> "Ok"]

nlinks_inc(s, r) ==
    [s EXCEPT !.heap[r.id][r.k].disk_inode.nlinks = @ + 1,
              !.heap[r.id][r.k].dirty = TRUE]

nlinks_dec(s, r) ==
    IF s.panicked THEN s
    ELSE IF ~(ObjOf(s, r).disk_inode.nlinks > 0) THEN Panic(s)
    ELSE [s EXCEPT !.heap[r.id][r.k].disk_inode.nlinks = @ - 1,
                   !.heap[r.id][r.k].dirty = TRUE]

\* INodeImpl::sync
inode_sync(s, r) ==
    IF ObjOf(s, r).dirty
    THEN [s EXCEPT !.meta_file.inode[r.id] = ObjOf(s, r).disk_inode,
                   !.heap[r.id][r.k].dirty = FALSE]
    ELSE s

----------------------------------------------------------------------------
(* SEFS: block allocator *)

BitsetAlloc(bits) ==
    LET free == {i \in DOMAIN bits : bits[i]}
    IN IF free = {} THEN [some |-> FALSE, id |-> 0, bits |-> bits]
       ELSE [some |-> TRUE, id |-> Min(free), bits |-> [bits EXCEPT ![Min(free)] = FALSE]]

\* alloc_block with the decrement moved out of the `if let`
alloc_block_dec_always(s) ==
    LET a == BitsetAlloc(s.free_map.val)
        s1 == [s EXCEPT !.free_map = Dirty_new_dirty(a.bits),
                        !.super_block.val.unused_blocks = @ - 1,
                        !.super_block.dirty = TRUE]
    IN [st |-> s1, some |-> a.some, id |-> a.id]

alloc_block(s) ==
    LET a == BitsetAlloc(s.free_map.val)
        s1 == [s EXCEPT !.free_map = Dirty_new_dirty(a.bits)]
    IN IF ~a.some THEN [st |-> s1, some |-> FALSE, id |-> 0]
       ELSE IF s1.super_block.val.unused_blocks = 0
            THEN [st |-> [s1 EXCEPT !.free_map.val[a.id] = TRUE], some |-> FALSE, id |-> 0]
            ELSE [st |-> [s1 EXCEPT !.super_block.val.unused_blocks = @ - 1,
                                    !.super_block.dirty = TRUE],
                  some |-> TRUE, id |-> a.id]

\* alloc_block, lines 482-483: under the free map's write lock
alloc_block_map(s) ==
    LET a == BitsetAlloc(s.free_map.val)
    IN [st |-> [s EXCEPT !.free_map = Dirty_new_dirty(a.bits)], some |-> a.some, id |-> a.id]

\* alloc_block, lines 485-490: under the superblock's write lock as well
alloc_block_count(s, block_id) ==
    IF s.super_block.val.unused_blocks = 0
    THEN [st |-> [s EXCEPT !.free_map.val[block_id] = TRUE], some |-> FALSE]
    ELSE [st |-> [s EXCEPT !.super_block.val.unused_blocks = @ - 1,
                           !.super_block.dirty = TRUE],
          some |-> TRUE]

\* free_block, lines 496-498: under the free map's write lock
free_block_map(s, block_id) ==
    IF s.free_map.val[block_id] THEN Panic(s)
    ELSE [s EXCEPT !.free_map.val[block_id] = TRUE, !.free_map.dirty = TRUE]

\* free_block, line 499: under the superblock's write lock as well
free_block_count(s) ==
    [s EXCEPT !.super_block.val.unused_blocks = @ + 1, !.super_block.dirty = TRUE]

\* free_block without the superblock update
free_block_no_count(s, block_id) ==
    IF s.panicked THEN s
    ELSE IF s.free_map.val[block_id] THEN Panic(s)
    ELSE [s EXCEPT !.free_map.val[block_id] = TRUE, !.free_map.dirty = TRUE]

free_block(s, block_id) ==
    IF s.panicked THEN s
    ELSE IF s.free_map.val[block_id] THEN Panic(s)
    ELSE [s EXCEPT !.free_map.val[block_id] = TRUE,
                   !.free_map.dirty = TRUE,
                   !.super_block.val.unused_blocks = @ + 1,
                   !.super_block.dirty = TRUE]

----------------------------------------------------------------------------
(* Arc<INodeImpl>: strong counts and Drop *)

\* Drop that frees the block and leaves the backing file
INodeImpl_drop_no_remove(s, r) ==
    LET s1 == inode_sync(s, r)
    IN IF ObjOf(s1, r).disk_inode.nlinks <= 0
       THEN free_block([s1 EXCEPT !.heap[r.id][r.k].dirty = FALSE], r.id)
       ELSE s1

\* impl Drop for INodeImpl
INodeImpl_drop(s, r) ==
    LET s1 == inode_sync(s, r)
    IN IF ObjOf(s1, r).disk_inode.nlinks <= 0
       THEN LET s2 == [s1 EXCEPT !.heap[r.id][r.k].dirty = FALSE]
                s3 == free_block(s2, r.id)
            IN device_remove(s3, r.id)
       ELSE s1

\* The memory of a dropped instance is released; a Weak to it no longer upgrades.
Release(s, r) ==
    [s EXCEPT !.heap[r.id][r.k] = NoObj,
              !.inodes[r.id] = IF @.present /\ @.k = r.k
                               THEN [present |-> TRUE, k |-> 0] ELSE @]

arc_clone(s, r) == [s EXCEPT !.heap[r.id][r.k].strong = @ + 1]

arc_drop(s, r) ==
    IF s.panicked THEN s
    ELSE IF ObjOf(s, r).strong > 1
         THEN [s EXCEPT !.heap[r.id][r.k].strong = @ - 1]
         ELSE Release(INodeImpl_drop([s EXCEPT !.heap[r.id][r.k].strong = 0], r), r)

Upgrade(s, id) ==
    LET w == s.inodes[id]
    IN w.present /\ w.k # 0 /\ s.heap[id][w.k].alive /\ s.heap[id][w.k].strong > 0

----------------------------------------------------------------------------
(* SEFS: inode factories *)

FreeSlots(s, id) == {k \in Slots : ~s.heap[id][k].alive}

new_inode(s, id, disk_inode, dirty, create) ==
    IF s.panicked THEN [st |-> s, ref |-> NoRef]
    ELSE IF FreeSlots(s, id) = {} THEN [st |-> [Panic(s) EXCEPT !.capped = TRUE], ref |-> NoRef]
    ELSE IF ~create /\ ~device_open_ok(s, id) THEN [st |-> Panic(s), ref |-> NoRef]
    ELSE LET k == Min(FreeSlots(s, id))
             s1 == IF create THEN device_create(s, id) ELSE s
         IN [st |-> [s1 EXCEPT !.heap[id][k] =
                                    [alive |-> TRUE, disk_inode |-> disk_inode,
                                     dirty |-> dirty, strong |-> 1],
                               !.inodes[id] = [present |-> TRUE, k |-> k]],
             ref |-> Ref(id, k)]

get_inode(s, id) ==
    IF s.panicked \/ id \notin INodeIds THEN [st |-> Panic(s), ref |-> NoRef]
    ELSE IF s.free_map.val[id] THEN [st |-> Panic(s), ref |-> NoRef]
    ELSE IF Upgrade(s, id)
         THEN [st |-> arc_clone(s, Ref(id, s.inodes[id].k)), ref |-> Ref(id, s.inodes[id].k)]
         ELSE new_inode(s, id, s.meta_file.inode[id], FALSE, FALSE)

new_inode_file(s) ==
    LET a == alloc_block(s)
    IN IF ~a.some
       THEN IF a.st = s THEN Fail(s, "NoDeviceSpace")
            ELSE Result(a.st, "NoDeviceSpace", NoRef)
       ELSE LET n == new_inode(a.st, a.id, new_file, TRUE, TRUE)
            IN Result(n.st, "Ok", n.ref)

new_inode_dir(s, parent) ==
    LET a == alloc_block(s)
    IN IF ~a.some
       THEN IF a.st = s THEN Fail(s, "NoDeviceSpace")
            ELSE Result(a.st, "NoDeviceSpace", NoRef)
       ELSE LET n == new_inode(a.st, a.id, new_dir, TRUE, TRUE)
            IN IF n.st.panicked THEN Result(n.st, "panic", NoRef)
               ELSE Result(dirent_init(n.st, n.ref, parent), "Ok", n.ref)

----------------------------------------------------------------------------
(* impl vfs::INode for INodeImpl *)

TypeOf(s, r) == ObjOf(s, r).disk_inode.type_
NlinksOf(s, r) == ObjOf(s, r).disk_inode.nlinks

\* The check `info.nlinks <= 0` of the directory-mutating operations
dir_removed(s, r) == NlinksOf(s, r) <= 0

\* info() panics on a type that is neither File nor Dir
info(s, r) == IF TypeOf(s, r) \in FileTypes THEN s ELSE Panic(s)

write_at(s, r, offset, buflen) ==
    IF TypeOf(s, r) # "File" THEN Fail(s, "NotFile")
    ELSE Result([s EXCEPT !.device[r.id].len =
                     IF buflen > 0 /\ offset + buflen > @ THEN offset + buflen ELSE @],
                "Ok", NoRef)

resize(s, r, len) ==
    IF TypeOf(s, r) # "File" THEN Fail(s, "NotFile")
    ELSE Result([s EXCEPT !.device[r.id].len = len,
                          !.heap[r.id][r.k].disk_inode.size = len,
                          !.heap[r.id][r.k].dirty = TRUE],
                "Ok", NoRef)

create(s, r, name, type_) ==
    IF info(s, r).panicked THEN Result(info(s, r), "panic", NoRef)
    ELSE IF TypeOf(s, r) # "Dir" THEN Fail(s, "NotDir")
    ELSE IF dir_removed(s, r) THEN Fail(s, "DirRemoved")
    ELSE IF get_file_inode_id(s, r, name).panic THEN Result(Panic(s), "panic", NoRef)
    ELSE IF get_file_inode_id(s, r, name).found THEN Fail(s, "EntryExist")
    ELSE LET n == IF type_ = "File" THEN new_inode_file(s) ELSE new_inode_dir(s, r.id)
         IN IF n.err # "Ok" THEN n
            ELSE LET s1 == dirent_append(n.st, r, DiskEntry(n.ref.id, name))
                     s2 == nlinks_inc(s1, n.ref)
                     s3 == IF type_ = "Dir"
                           THEN nlinks_inc(nlinks_inc(s2, n.ref), r)
                           ELSE s2
                 IN Result(s3, "Ok", n.ref)

\* unlink with the emptiness test off by one
unlink_not_empty_gt3(s, inode) == ObjOf(s, inode).disk_inode.blocks > 3

\* unlink, lines 238-240: more than `.` and `..`
unlink_not_empty(s, inode) == ObjOf(s, inode).disk_inode.blocks > 2

\* unlink, lines 243-247: the link counts given up with the entry
unlink_dec_child_only(s, r, inode, type_) ==
    LET s1 == nlinks_dec(s, inode)
    IN IF type_ = "Dir" THEN nlinks_dec(s1, inode) ELSE s1

unlink_dec(s, r, inode, type_) ==
    LET s1 == nlinks_dec(s, inode)
    IN IF type_ = "Dir" THEN nlinks_dec(nlinks_dec(s1, inode), r) ELSE s1

unlink(s, r, name) ==
    IF info(s, r).panicked THEN Result(info(s, r), "panic", NoRef)
    ELSE IF TypeOf(s, r) # "Dir" THEN Fail(s, "NotDir")
    ELSE IF dir_removed(s, r) THEN Fail(s, "DirRemoved")
    ELSE IF name = "." \/ name = ".." THEN Fail(s, "IsDir")
    ELSE IF get_file_inode_and_entry_id(s, r, name).panic THEN Result(Panic(s), "panic", NoRef)
    ELSE IF ~get_file_inode_and_entry_id(s, r, name).found THEN Fail(s, "EntryNotFound")
    ELSE LET e == get_file_inode_and_entry_id(s, r, name)
             g == get_inode(s, e.id)
             inode == g.ref
         IN IF g.st.panicked THEN Result(g.st, "panic", NoRef)
            ELSE LET type_ == TypeOf(g.st, inode)
                     blocks == ObjOf(g.st, inode).disk_inode.blocks
                 IN IF type_ = "Dir" /\ ~(blocks >= 2) THEN Result(Panic(g.st), "panic", NoRef)
                    ELSE IF type_ = "Dir" /\ unlink_not_empty(g.st, inode)
                         THEN Result(arc_drop(g.st, inode), "DirNotEmpty", NoRef)
                    ELSE LET s2 == unlink_dec(g.st, r, inode, type_)
                             d == dirent_remove(s2, r, e.entry_id)
                         IN IF s2.panicked THEN Result(s2, "panic", NoRef)
                            ELSE Result(arc_drop(d.st, inode), d.err, NoRef)

link(s, r, name, other) ==
    IF info(s, r).panicked THEN Result(info(s, r), "panic", NoRef)
    ELSE IF TypeOf(s, r) # "Dir" THEN Fail(s, "NotDir")
    ELSE IF dir_removed(s, r) THEN Fail(s, "DirRemoved")
    ELSE IF get_file_inode_id(s, r, name).panic THEN Result(Panic(s), "panic", NoRef)
    ELSE IF get_file_inode_id(s, r, name).found THEN Fail(s, "EntryExist")
    ELSE IF info(s, other).panicked THEN Result(info(s, other), "panic", NoRef)
    ELSE IF TypeOf(s, other) = "Dir" THEN Fail(s, "IsDir")
    ELSE LET s1 == dirent_append(s, r, DiskEntry(other.id, name))
         IN Result(nlinks_inc(s1, other), "Ok", NoRef)

rename(s, r, old_name, new_name) ==
    IF info(s, r).panicked THEN Result(info(s, r), "panic", NoRef)
    ELSE IF TypeOf(s, r) # "Dir" THEN Fail(s, "NotDir")
    ELSE IF dir_removed(s, r) THEN Fail(s, "DirRemoved")
    ELSE IF old_name = "." \/ old_name = ".." THEN Fail(s, "IsDir")
    ELSE IF get_file_inode_id(s, r, new_name).panic THEN Result(Panic(s), "panic", NoRef)
    ELSE IF get_file_inode_id(s, r, new_name).found THEN Fail(s, "EntryExist")
    ELSE IF ~get_file_inode_and_entry_id(s, r, old_name).found
         THEN Fail(s, "EntryNotFound")
    ELSE LET e == get_file_inode_and_entry_id(s, r, old_name)
         IN Result(write_direntry(s, r.id, e.entry_id, DiskEntry(e.id, new_name)),
                   "Ok", NoRef)

\* The name whose presence refuses the move is looked up in the receiver (line 335).
\* move_, lines 310-341: the checks, the lookup of old_name and get_inode.
\* Returns the temporary handle `inode` and the slot of the source entry.
move_lookup(s, r, old_name, dest, new_name) ==
    LET none == [inode |-> NoRef, inode_id |-> 0, entry_id |-> 0]
    IN IF info(s, r).panicked THEN [st |-> info(s, r), err |-> "panic"] @@ none
       ELSE IF TypeOf(s, r) # "Dir" THEN [st |-> s, err |-> "NotDir"] @@ none
       ELSE IF dir_removed(s, r) THEN [st |-> s, err |-> "DirRemoved"] @@ none
       ELSE IF old_name = "." \/ old_name = ".." THEN [st |-> s, err |-> "IsDir"] @@ none
       ELSE IF info(s, dest).panicked THEN [st |-> info(s, dest), err |-> "panic"] @@ none
       ELSE IF TypeOf(s, dest) # "Dir" THEN [st |-> s, err |-> "NotDir"] @@ none
       ELSE IF dir_removed(s, dest) THEN [st |-> s, err |-> "DirRemoved"] @@ none
       ELSE IF get_file_inode_id(s, r, new_name).panic
            THEN [st |-> Panic(s), err |-> "panic"] @@ none
       ELSE IF get_file_inode_id(s, r, new_name).found
            THEN [st |-> s, err |-> "EntryExist"] @@ none
       ELSE IF ~get_file_inode_and_entry_id(s, r, old_name).found
            THEN [st |-> s, err |-> "EntryNotFound"] @@ none
       ELSE LET e == get_file_inode_and_entry_id(s, r, old_name)
                g == get_inode(s, e.id)
            IN [st |-> g.st, err |-> IF g.st.panicked THEN "panic" ELSE "Ok",
                inode |-> g.ref, inode_id |-> e.id, entry_id |-> e.entry_id]

\* move_ with the source entry removed first
move_first_remove(s, r, dest, entry, entry_id) == dirent_remove(s, r, entry_id)

\* move_, line 346: the first of the two directory updates
move_first(s, r, dest, entry, entry_id) ==
    [st |-> dirent_append(s, dest, entry), err |-> "Ok"]

\* move_, line 347: the second of the two directory updates
move_second(s, r, dest, entry, entry_id) == dirent_remove(s, r, entry_id)

\* move_, lines 350-355: the link counts of the two directories, then the
\* temporary handle goes out of scope
move_nlinks(s, r, dest, inode) ==
    IF info(s, inode).panicked THEN Panic(s)
    ELSE arc_drop(IF TypeOf(s, inode) = "Dir"
                  THEN nlinks_inc(nlinks_dec(s, r), dest)
                  ELSE s, inode)

move_collision(s, r, dest, new_name) == get_file_inode_id(s, r, new_name)

move_(s, r, old_name, dest, new_name) ==
    IF info(s, r).panicked THEN Result(info(s, r), "panic", NoRef)
    ELSE IF TypeOf(s, r) # "Dir" THEN Fail(s, "NotDir")
    ELSE IF dir_removed(s, r) THEN Fail(s, "DirRemoved")
    ELSE IF old_name = "." \/ old_name = ".." THEN Fail(s, "IsDir")
    ELSE IF info(s, dest).panicked THEN Result(info(s, dest), "panic", NoRef)
    ELSE IF TypeOf(s, dest) # "Dir" THEN Fail(s, "NotDir")
    ELSE IF dir_removed(s, dest) THEN Fail(s, "DirRemoved")
    ELSE IF move_collision(s, r, dest, new_name).panic THEN Result(Panic(s), "panic", NoRef)
    ELSE IF move_collision(s, r, dest, new_name).found THEN Fail(s, "EntryExist")
    ELSE IF ~get_file_inode_and_entry_id(s, r, old_name).found
         THEN Fail(s, "EntryNotFound")
    ELSE LET e == get_file_inode_and_entry_id(s, r, old_name)
             g == get_inode(s, e.id)
             inode == g.ref
         IN IF g.st.panicked THEN Result(g.st, "panic", NoRef)
            ELSE LET s1 == dirent_append(g.st, dest, DiskEntry(e.id, new_name))
                     d == dirent_remove(s1, r, e.entry_id)
                 IN IF d.err # "Ok" THEN Result(arc_drop(d.st, inode), d.err, NoRef)
                    ELSE IF info(d.st, inode).panicked THEN Result(Panic(d.st), "panic", NoRef)
                    ELSE LET s2 == IF TypeOf(d.st, inode) = "Dir"
                                   THEN nlinks_inc(nlinks_dec(d.st, r), dest)
                                   ELSE d.st
                         IN Result(arc_drop(s2, inode), "Ok", NoRef)

find(s, r, name) ==
    IF info(s, r).panicked THEN Result(info(s, r), "panic", NoRef)
    ELSE IF TypeOf(s, r) # "Dir" THEN Fail(s, "NotDir")
    ELSE IF get_file_inode_id(s, r, name).panic THEN Result(Panic(s), "panic", NoRef)
    ELSE IF ~get_file_inode_id(s, r, name).found THEN Fail(s, "EntryNotFound")
    ELSE LET g == get_inode(s, get_file_inode_id(s, r, name).id)
         IN Result(g.st, "Ok", g.ref)

----------------------------------------------------------------------------
(* impl vfs::FileSystem for SEFS *)

\* FileSystem::sync, lines 560-564: the superblock, if dirty
sync_super_block(s) ==
    IF s.super_block.dirty
    THEN [s EXCEPT !.meta_file.super_block = s.super_block.val,
                   !.super_block.dirty = FALSE]
    ELSE s

\* sync of the free map that marks it clean without writing it
sync_free_map_no_write(s) == [s EXCEPT !.free_map.dirty = FALSE]

\* FileSystem::sync, lines 565-569: the free map, if dirty
sync_free_map(s) ==
    IF s.free_map.dirty
    THEN [s EXCEPT !.meta_file.free_map = s.free_map.val,
                   !.free_map.dirty = FALSE]
    ELSE s

flush_weak_inodes(s) ==
    [s EXCEPT !.inodes = [id \in INodeIds |->
                            IF s.inodes[id].present /\ ~Upgrade(s, id) THEN NoWeak
                            ELSE s.inodes[id]]]

LiveRefs(s) == {r \in {Ref(id, k) : id \in INodeIds, k \in Slots} : ObjOf(s, r).alive}

RECURSIVE SyncAll(_, _)
SyncAll(s, ids) ==
    IF ids = {} THEN s
    ELSE LET id == Min(ids)
             s1 == IF Upgrade(s, id) THEN inode_sync(s, Ref(id, s.inodes[id].k)) ELSE s
         IN SyncAll(s1, ids \ {id})

SEFS_sync(s) ==
    LET s1 == IF s.super_block.dirty
              THEN [s EXCEPT !.meta_file.super_block = s.super_block.val,
                             !.super_block.dirty = FALSE]
              ELSE s
        s2 == IF s1.free_map.dirty
              THEN [s1 EXCEPT !.meta_file.free_map = s1.free_map.val,
                              !.free_map.dirty = FALSE]
              ELSE s1
        s3 == flush_weak_inodes(s2)
    IN Result(SyncAll(s3, {id \in INodeIds : s3.inodes[id].present}), "Ok", NoRef)

root_inode(s) ==
    LET g == get_inode(s, BLKN_ROOT)
    IN Result(g.st, "Ok", g.ref)

SuperBlock_check(sb) == sb.magic = MAGIC

\* SEFS::open: a new filesystem object over the device, with an empty cache
\* and no instances of its own.
SEFS_open(s) ==
    IF ~SuperBlock_check(s.meta_file.super_block) THEN Fail(s, "WrongFs")
    ELSE Result([s EXCEPT !.super_block = Dirty_new(s.meta_file.super_block),
                          !.free_map = Dirty_new(s.meta_file.free_map),
                          !.inodes = [id \in INodeIds |-> NoWeak],
                          !.heap = [id \in INodeIds |-> [k \in Slots |-> NoObj]]],
                "Ok", NoRef)

\* SEFS::create on a fresh device
SEFS_create ==
    LET s0 == [super_block |-> Dirty_new_dirty(SuperBlock(BLKBITS - 3)),
               free_map |-> Dirty_new_dirty([i \in BlockIds |-> i >= 3]),
               inodes |-> [id \in INodeIds |-> NoWeak],
               heap |-> [id \in INodeIds |-> [k \in Slots |-> NoObj]],
               device |-> [id \in INodeIds |-> NoFile],
               meta_file |-> [super_block |-> ZeroSuperBlock,
                              free_map |-> [i \in BlockIds |-> FALSE],
                              inode |-> [id \in INodeIds |-> ZeroINode]],
               removed |-> << >>, panicked |-> FALSE, capped |-> FALSE]
        n == new_inode(s0, BLKN_ROOT, new_dir, TRUE, TRUE)
        root == n.ref
        s1 == dirent_init(n.st, root, BLKN_ROOT)
        s2 == nlinks_inc(nlinks_inc(s1, root), root)
        s3 == inode_sync(s2, root)
    IN arc_drop(s3, root)

----------------------------------------------------------------------------------------------------------------------------------------
(* The sequential specification: a client that holds handles (Arc<INode>)   *)
(* and calls one operation at a time.  A call that leaves the state as it  *)
(* was is a stuttering step, which [][Next]_vars allows anyway.            *)

\* A thread of the concurrent client: where it is in its call, the root handle
\* it holds, the arguments of its create, the handle create made, the record
\* get_inode loaded and what its last create returned.
Idle ==
    [pc |-> "idle", h |-> NoRef, name |-> "", type_ |-> "File", new |-> NoRef,
     di |-> ZeroINode, ret |-> "", dest |-> NoRef, entry_id |-> 0, held |-> << >>,
     id |-> 0, cursor |-> 0, resume |-> ""]

Init ==
    /\ super_block = SEFS_create.super_block
    /\ free_map = SEFS_create.free_map
    /\ inodes = SEFS_create.inodes
    /\ heap = SEFS_create.heap
    /\ device = SEFS_create.device
    /\ meta_file = SEFS_create.meta_file
    /\ panicked = FALSE
    /\ threads = [t \in Threads |-> Idle]

\* The handles the client holds: every live instance is held by the client.
Held == LiveRefs(Cur)

HandlesOk(s) == \A r \in LiveRefs(s) : ObjOf(s, r).strong <= MaxHandles

\* No directory grows past MaxEntries entries.
EntriesOk(s) == \A id \in INodeIds : Len(s.device[id].ents) <= MaxEntries

\* The client's calls stay within the bounds of the model.
Within(s) == ~s.capped /\ HandlesOk(s) /\ EntriesOk(s)

Done(res) ==
    /\ ~res.same
    /\ Within(res.st)
    /\ Install(res.st)
    /\ UNCHANGED threads

RootInode ==
    /\ ~panicked
    /\ Done(root_inode(Cur))

Find ==
    /\ ~panicked
    /\ \E r \in Held, name \in Names : Done(find(Cur, r, name))

Create ==
    /\ ~panicked
    /\ \E r \in Held, name \in Names, type_ \in FileTypes :
          Done(create(Cur, r, name, type_))

Unlink ==
    /\ ~panicked
    /\ \E r \in Held, name \in Names : Done(unlink(Cur, r, name))

Link ==
    /\ ~panicked
    /\ \E r \in Held, name \in Names, other \in Held :
          Done(link(Cur, r, name, other))

Rename ==
    /\ ~panicked
    /\ \E r \in Held, old_name \in Names, new_name \in Names :
          Done(rename(Cur, r, old_name, new_name))

Move ==
    /\ ~panicked
    /\ \E r \in Held, old_name \in Names, dest \in Held, new_name \in Names :
          Done(move_(Cur, r, old_name, dest, new_name))

DropHandle ==
    /\ ~panicked
    /\ \E r \in Held : Done(Result(arc_drop(Cur, r), "Ok", NoRef))

Next ==
    \/ RootInode
    \/ Find
    \/ Create
    \/ Unlink
    \/ Link
    \/ Rename
    \/ Move
    \/ DropHandle

Spec == Init /\ [][Next]_vars

----------------------------------------------------------------------------
(* The file specification: a client that creates files, writes and resizes *)
(* them.                                                                   *)

LenOk(s) == \A id \in INodeIds : s.device[id].len <= MaxLen

CreateFile ==
    /\ ~panicked
    /\ \E r \in Held, name \in UserNames : Done(create(Cur, r, name, "File"))

WriteAt ==
    /\ ~panicked
    /\ \E r \in Held, offset \in 0 .. MaxLen, buflen \in 0 .. MaxLen :
          /\ LenOk(write_at(Cur, r, offset, buflen).st)
          /\ Done(write_at(Cur, r, offset, buflen))

Resize ==
    /\ ~panicked
    /\ \E r \in Held, len \in 0 .. MaxLen : Done(resize(Cur, r, len))

InodeSync ==
    /\ ~panicked
    /\ \E r \in Held : Done(Result(inode_sync(Cur, r), "Ok", NoRef))

Sync ==
    /\ ~panicked
    /\ Done(SEFS_sync(Cur))

\* The client, holding no handle, drops the filesystem (Drop for SEFS syncs)
\* and opens the device again.
Reopen ==
    /\ ~panicked
    /\ Held = {}
    /\ SEFS_open(SEFS_sync(Cur).st).err = "Ok"
    /\ Install(SEFS_open(SEFS_sync(Cur).st).st)
    /\ UNCHANGED threads

NextFile ==
    \/ RootInode
    \/ Find
    \/ CreateFile
    \/ WriteAt
    \/ Resize
    \/ InodeSync
    \/ Sync
    \/ Reopen
    \/ DropHandle

SpecFile == Init /\ [][NextFile]_vars

----------------------------------------------------------------------------
(* The concurrent specification: threads that call root_inode() and then   *)
(* create() on the handle they got.  A step is what a thread does under    *)
(* one lock acquisition.                                                   *)

ThreadStep(t, s, loc) ==
    /\ ~s.capped
    /\ Install(s)
    /\ threads' = [threads EXCEPT ![t] = loc]

\* get_inode, lines 520-527: the assert and the cache lookup
GetInodeCached(t) ==
    /\ ~panicked
    /\ threads[t].pc = "idle"
    /\ IF free_map.val[BLKN_ROOT] THEN ThreadStep(t, Panic(Cur), threads[t])
       ELSE IF Upgrade(Cur, BLKN_ROOT)
            THEN ThreadStep(t, arc_clone(Cur, Ref(BLKN_ROOT, inodes[BLKN_ROOT].k)),
                            [threads[t] EXCEPT !.pc = "ready",
                                               !.h = Ref(BLKN_ROOT, inodes[BLKN_ROOT].k)])
            ELSE ThreadStep(t, Cur, [threads[t] EXCEPT !.pc = "get_inode_load"])

\* get_inode, line 529: load the record from the meta-file
GetInodeLoad(t) ==
    /\ ~panicked
    /\ threads[t].pc = "get_inode_load"
    /\ ThreadStep(t, Cur, [threads[t] EXCEPT !.pc = "get_inode_new",
                                             !.di = meta_file.inode[BLKN_ROOT]])

\* get_inode, line 530: _new_inode builds the instance and inserts it
GetInodeNew(t) ==
    /\ ~panicked
    /\ threads[t].pc = "get_inode_new"
    /\ LET n == new_inode(Cur, BLKN_ROOT, threads[t].di, FALSE, FALSE)
       IN ThreadStep(t, n.st, [threads[t] EXCEPT !.pc = "ready", !.h = n.ref,
                                                 !.di = ZeroINode])

\* create, lines 184-190: info() and the checks on it
CreateInfo(t) ==
    /\ ~panicked
    /\ threads[t].pc = "ready"
    /\ threads[t].new = NoRef
    /\ \E name \in UserNames, type_ \in FileTypes :
          LET loc == [threads[t] EXCEPT !.name = name, !.type_ = type_]
          IN IF info(Cur, threads[t].h).panicked
             THEN ThreadStep(t, Panic(Cur), threads[t])
             ELSE IF TypeOf(Cur, threads[t].h) # "Dir"
                  THEN ThreadStep(t, Cur, [loc EXCEPT !.ret = "NotDir"])
             ELSE IF dir_removed(Cur, threads[t].h)
                  THEN ThreadStep(t, Cur, [loc EXCEPT !.ret = "DirRemoved"])
             ELSE ThreadStep(t, Cur, [loc EXCEPT !.ret = "", !.pc = "create_lookup"])

\* create, lines 193-195: the name must not exist
CreateLookup(t) ==
    /\ ~panicked
    /\ threads[t].pc = "create_lookup"
    /\ LET g == get_file_inode_id(Cur, threads[t].h, threads[t].name)
       IN IF g.panic THEN ThreadStep(t, Panic(Cur), threads[t])
          ELSE IF g.found
               THEN ThreadStep(t, Cur, [threads[t] EXCEPT !.pc = "ready",
                                                          !.ret = "EntryExist"])
               ELSE ThreadStep(t, Cur, [threads[t] EXCEPT !.pc = "create_new_inode"])

\* create, lines 198-201: new_inode_file / new_inode_dir
CreateNewInode(t) ==
    /\ ~panicked
    /\ threads[t].pc = "create_new_inode"
    /\ LET n == IF threads[t].type_ = "File" THEN new_inode_file(Cur)
                ELSE new_inode_dir(Cur, threads[t].h.id)
       IN IF n.err = "Ok"
          THEN ThreadStep(t, n.st, [threads[t] EXCEPT !.pc = "create_append",
                                                      !.new = n.ref])
          ELSE ThreadStep(t, n.st, [threads[t] EXCEPT !.pc = "ready", !.ret = n.err])

\* create, lines 204-208: dirent_append under the directory's write lock
CreateAppend(t) ==
    /\ ~panicked
    /\ threads[t].pc = "create_append"
    /\ ThreadStep(t, dirent_append(Cur, threads[t].h,
                                   DiskEntry(threads[t].new.id, threads[t].name)),
                  [threads[t] EXCEPT !.pc = "create_nlinks"])

\* create, lines 209-215: the link counts, then Ok(inode)
CreateNlinks(t) ==
    /\ ~panicked
    /\ threads[t].pc = "create_nlinks"
    /\ LET s1 == nlinks_inc(Cur, threads[t].new)
           s2 == IF threads[t].type_ = "Dir"
                 THEN nlinks_inc(nlinks_inc(s1, threads[t].new), threads[t].h)
                 ELSE s1
       IN ThreadStep(t, s2, [threads[t] EXCEPT !.pc = "ready", !.ret = "Ok"])

\* The thread drops the handle create returned.
DropNew(t) ==
    /\ ~panicked
    /\ threads[t].pc = "ready"
    /\ threads[t].new # NoRef
    /\ ThreadStep(t, arc_drop(Cur, threads[t].new), [threads[t] EXCEPT !.new = NoRef])

\* The thread drops its root handle.
DropRoot(t) ==
    /\ ~panicked
    /\ threads[t].pc = "ready"
    /\ threads[t].new = NoRef
    /\ ThreadStep(t, arc_drop(Cur, threads[t].h), Idle)

NextConc ==
    \E t \in Threads :
        \/ GetInodeCached(t)
        \/ GetInodeLoad(t)
        \/ GetInodeNew(t)
        \/ CreateInfo(t)
        \/ CreateLookup(t)
        \/ CreateNewInode(t)
        \/ CreateAppend(t)
        \/ CreateNlinks(t)
        \/ DropNew(t)
        \/ DropRoot(t)

SpecConc == Init /\ [][NextConc]_vars

----------------------------------------------------------------------------
(* The move specification: a client whose move_ calls are observed between *)
(* their two directory updates.  threads[1] holds the locals of move_.     *)

Quiet == threads[1].pc = "idle"

MvRootInode == Quiet /\ RootInode

MvCreate == Quiet /\ Create

MvDropHandle == Quiet /\ DropHandle

\* move_ up to and including its first directory update
MoveFirst ==
    /\ ~panicked
    /\ Quiet
    /\ \E r \in Held, old_name \in Names, dest \in Held, new_name \in Names :
          LET l == move_lookup(Cur, r, old_name, dest, new_name)
              f == move_first(l.st, r, dest, DiskEntry(l.inode_id, new_name), l.entry_id)
          IN /\ l.err = "Ok"
             /\ IF f.err = "Ok"
                THEN /\ EntriesOk(f.st)
                     /\ ThreadStep(1, f.st,
                            [Idle EXCEPT !.pc = "move_second", !.h = r, !.dest = dest,
                                         !.new = l.inode, !.name = new_name,
                                         !.entry_id = l.entry_id])
                ELSE ThreadStep(1, arc_drop(f.st, l.inode), Idle)

\* the rest of move_: the second directory update and the link counts
MoveSecond ==
    /\ ~panicked
    /\ threads[1].pc = "move_second"
    /\ LET loc == threads[1]
           d == move_second(Cur, loc.h, loc.dest, DiskEntry(loc.new.id, loc.name),
                            loc.entry_id)
       IN IF d.err # "Ok" THEN ThreadStep(1, arc_drop(d.st, loc.new), Idle)
          ELSE ThreadStep(1, move_nlinks(d.st, loc.h, loc.dest, loc.new), Idle)

NextMove ==
    \/ MvRootInode
    \/ MvCreate
    \/ MvDropHandle
    \/ MoveFirst
    \/ MoveSecond

SpecMove == Init /\ [][NextMove]_vars

----------------------------------------------------------------------------
(* The sync specification: a client whose FileSystem::sync calls are       *)
(* observed after each of their parts.  threads[1] holds the position.     *)

SyRootInode == Quiet /\ RootInode

SyCreate == Quiet /\ Create

SyUnlink == Quiet /\ Unlink

SyDropHandle == Quiet /\ DropHandle

SyncStep(s, pc) == ThreadStep(1, s, [Idle EXCEPT !.pc = pc])

\* lines 560-564
SyncSuperBlock ==
    /\ ~panicked
    /\ Quiet
    /\ SyncStep(sync_super_block(Cur), "sync_free_map")

\* lines 565-569
SyncFreeMap ==
    /\ ~panicked
    /\ threads[1].pc = "sync_free_map"
    /\ SyncStep(sync_free_map(Cur), "sync_flush")

\* line 570
SyncFlush ==
    /\ ~panicked
    /\ threads[1].pc = "sync_flush"
    /\ SyncStep(flush_weak_inodes(Cur), "sync_inodes")

\* lines 571-575
SyncInodes ==
    /\ ~panicked
    /\ threads[1].pc = "sync_inodes"
    /\ SyncStep(SyncAll(Cur, {id \in INodeIds : inodes[id].present}), "sync_ret")

\* line 576: Ok(())
SyncReturn ==
    /\ ~panicked
    /\ threads[1].pc = "sync_ret"
    /\ SyncStep(Cur, "idle")

NextSync ==
    \/ SyRootInode
    \/ SyCreate
    \/ SyUnlink
    \/ SyDropHandle
    \/ SyncSuperBlock
    \/ SyncFreeMap
    \/ SyncFlush
    \/ SyncInodes
    \/ SyncReturn

SpecSync == Init /\ [][NextSync]_vars

----------------------------------------------------------------------------
(* The lock specification: threads that create, unlink and drop a file     *)
(* and call FileSystem::sync, one step per lock acquisition.  A thread's   *)
(* `held` lists the RwLock guards it holds, in the order it took them.     *)

Locks == {"inodes", "disk_inode", "free_map", "super_block"}

Holders(lock) ==
    {t \in Threads : \E i \in 1 .. Len(threads[t].held) : threads[t].held[i].lock = lock}

Writers(lock) ==
    {t \in Threads : \E i \in 1 .. Len(threads[t].held) :
        threads[t].held[i] = [lock |-> lock, mode |-> "w"]}

\* spin::RwLock: write() spins while anyone holds the lock, read() while a
\* writer does
Blockers(lock, mode) == IF mode = "w" THEN Holders(lock) ELSE Writers(lock)

Take(loc, lock, mode) == [loc EXCEPT !.held = Append(@, [lock |-> lock, mode |-> mode])]

Untake(loc, lock) == [loc EXCEPT !.held = SelectSeq(@, LAMBDA g : g.lock # lock)]

\* The name a thread uses for its file.
NameOf(t) == IF t = 1 THEN "a" ELSE "b"

\* root_inode: get_inode reads the free map and the cache
LkRootInode(t) ==
    /\ ~panicked
    /\ threads[t].pc = "idle"
    /\ Blockers("free_map", "r") = {}
    /\ Blockers("inodes", "w") = {}
    /\ ThreadStep(t, root_inode(Cur).st,
                  [threads[t] EXCEPT !.pc = "ready", !.h = root_inode(Cur).ref,
                                     !.name = NameOf(t)])

\* create, lines 184-195: the checks; the name must not exist
LkCreate(t) ==
    /\ ~panicked
    /\ threads[t].pc = "ready"
    /\ threads[t].new = NoRef
    /\ ~info(Cur, threads[t].h).panicked
    /\ ~dir_removed(Cur, threads[t].h)
    /\ ~get_file_inode_id(Cur, threads[t].h, threads[t].name).panic
    /\ ~get_file_inode_id(Cur, threads[t].h, threads[t].name).found
    /\ ThreadStep(t, Cur, [threads[t] EXCEPT !.pc = "alloc_free_map"])

\* alloc_block, lines 482-483
LkAllocFreeMap(t) ==
    /\ ~panicked
    /\ threads[t].pc = "alloc_free_map"
    /\ Blockers("free_map", "w") = {}
    /\ LET a == alloc_block_map(Cur)
       IN IF a.some
          THEN ThreadStep(t, a.st, [Take(threads[t], "free_map", "w") EXCEPT
                                       !.pc = "alloc_super_block", !.id = a.id])
          ELSE ThreadStep(t, a.st, [threads[t] EXCEPT !.pc = "ready",
                                                      !.ret = "NoDeviceSpace"])

\* alloc_block, lines 485-492
LkAllocSuperBlock(t) ==
    /\ ~panicked
    /\ threads[t].pc = "alloc_super_block"
    /\ Blockers("super_block", "w") = {}
    /\ LET a == alloc_block_count(Cur, threads[t].id)
       IN IF a.some
          THEN ThreadStep(t, a.st, [Untake(threads[t], "free_map") EXCEPT
                                       !.pc = "new_inode"])
          ELSE ThreadStep(t, a.st, [Untake(threads[t], "free_map") EXCEPT
                                       !.pc = "ready", !.id = 0, !.ret = "NoDeviceSpace"])

\* _new_inode, lines 504-516: the backing file, then the cache insert
LkNewInode(t) ==
    /\ ~panicked
    /\ threads[t].pc = "new_inode"
    /\ Blockers("inodes", "w") = {}
    /\ LET n == new_inode(Cur, threads[t].id, new_file, TRUE, TRUE)
       IN ThreadStep(t, n.st, [threads[t] EXCEPT !.pc = "create_link", !.new = n.ref,
                                                 !.id = 0])

\* create, lines 204-215: the directory entry and the link count
LkCreateLink(t) ==
    /\ ~panicked
    /\ threads[t].pc = "create_link"
    /\ ThreadStep(t, nlinks_inc(dirent_append(Cur, threads[t].h,
                                              DiskEntry(threads[t].new.id, threads[t].name)),
                                threads[t].new),
                  [threads[t] EXCEPT !.pc = "ready", !.ret = "Ok"])

\* unlink of the thread's own file while it holds the handle
LkUnlink(t) ==
    /\ ~panicked
    /\ threads[t].pc = "ready"
    /\ threads[t].new # NoRef
    /\ ObjOf(Cur, threads[t].new).disk_inode.nlinks > 0
    /\ \A lock \in Locks : Holders(lock) = {}
    /\ unlink(Cur, threads[t].h, threads[t].name).err = "Ok"
    /\ ThreadStep(t, unlink(Cur, threads[t].h, threads[t].name).st, threads[t])

\* An Arc<INodeImpl> goes out of scope: the strong count drops, and the
\* thread that took it to zero runs Drop for INodeImpl.
StartDrop(t, s, loc, r, resume) ==
    IF ObjOf(s, r).strong > 1
    THEN ThreadStep(t, [s EXCEPT !.heap[r.id][r.k].strong = @ - 1],
                    [loc EXCEPT !.pc = resume, !.dest = NoRef])
    ELSE ThreadStep(t, [s EXCEPT !.heap[r.id][r.k].strong = 0],
                    [loc EXCEPT !.pc = "drop_sync", !.dest = r, !.resume = resume])

\* The thread drops the handle of its file.
LkDropNew(t) ==
    /\ ~panicked
    /\ threads[t].pc = "ready"
    /\ threads[t].new # NoRef
    /\ StartDrop(t, Cur, [threads[t] EXCEPT !.new = NoRef], threads[t].new, "ready")

\* Drop for INodeImpl, lines 385-387
LkDropSync(t) ==
    /\ ~panicked
    /\ threads[t].pc = "drop_sync"
    /\ LET r == threads[t].dest
           s1 == inode_sync(Cur, r)
       IN IF ObjOf(s1, r).disk_inode.nlinks <= 0
          THEN ThreadStep(t, [s1 EXCEPT !.heap[r.id][r.k].dirty = FALSE],
                          [threads[t] EXCEPT !.pc = "free_free_map"])
          ELSE ThreadStep(t, Release(s1, r),
                          [threads[t] EXCEPT !.pc = threads[t].resume, !.dest = NoRef,
                                             !.resume = ""])

\* free_block, lines 496-498
LkFreeFreeMap(t) ==
    /\ ~panicked
    /\ threads[t].pc = "free_free_map"
    /\ Blockers("free_map", "w") = {}
    /\ ThreadStep(t, free_block_map(Cur, threads[t].dest.id),
                  [Take(threads[t], "free_map", "w") EXCEPT !.pc = "free_super_block"])

\* free_block, line 499
LkFreeSuperBlock(t) ==
    /\ ~panicked
    /\ threads[t].pc = "free_super_block"
    /\ Blockers("super_block", "w") = {}
    /\ ThreadStep(t, free_block_count(Cur),
                  [Untake(threads[t], "free_map") EXCEPT !.pc = "drop_remove"])

\* Drop for INodeImpl, line 389
LkDropRemove(t) ==
    /\ ~panicked
    /\ threads[t].pc = "drop_remove"
    /\ ThreadStep(t, Release(device_remove(Cur, threads[t].dest.id), threads[t].dest),
                  [threads[t] EXCEPT !.pc = threads[t].resume, !.dest = NoRef,
                                     !.resume = ""])

\* FileSystem::sync, lines 560-564
LkSyncSuperBlock(t) ==
    /\ ~panicked
    /\ threads[t].pc = "ready"
    /\ Blockers("super_block", "w") = {}
    /\ ThreadStep(t, sync_super_block(Cur),
                  [Take(threads[t], "super_block", "w") EXCEPT !.pc = "sync_free_map"])

\* FileSystem::sync, lines 565-569
LkSyncFreeMap(t) ==
    /\ ~panicked
    /\ threads[t].pc = "sync_free_map"
    /\ Blockers("free_map", "w") = {}
    /\ ThreadStep(t, sync_free_map(Cur),
                  [Take(threads[t], "free_map", "w") EXCEPT !.pc = "sync_flush"])

\* FileSystem::sync, line 570: flush_weak_inodes
LkSyncFlush(t) ==
    /\ ~panicked
    /\ threads[t].pc = "sync_flush"
    /\ Blockers("inodes", "w") = {}
    /\ ThreadStep(t, flush_weak_inodes(Cur), [threads[t] EXCEPT !.pc = "sync_scan"])

\* FileSystem::sync, line 571: inodes.read()
LkSyncScan(t) ==
    /\ ~panicked
    /\ threads[t].pc = "sync_scan"
    /\ Blockers("inodes", "r") = {}
    /\ ThreadStep(t, Cur, [Take(threads[t], "inodes", "r") EXCEPT
                               !.pc = "sync_upgrade", !.cursor = 0])

\* FileSystem::sync, lines 571-572 and 576: the next entry that upgrades, or
\* the end of the loop and Ok(())
LkSyncUpgrade(t) ==
    /\ ~panicked
    /\ threads[t].pc = "sync_upgrade"
    /\ LET ids == {id \in INodeIds : id >= threads[t].cursor /\ Upgrade(Cur, id)}
       IN IF ids = {}
          THEN ThreadStep(t, Cur, [threads[t] EXCEPT !.pc = "ready", !.held = << >>,
                                                     !.cursor = 0])
          ELSE LET r == Ref(Min(ids), inodes[Min(ids)].k)
               IN ThreadStep(t, arc_clone(Cur, r),
                             [threads[t] EXCEPT !.pc = "sync_inode", !.dest = r,
                                                !.cursor = Min(ids) + 1])

\* FileSystem::sync, lines 573-574: inode.sync(), then the upgraded Arc goes
\* out of scope
LkSyncInode(t) ==
    /\ ~panicked
    /\ threads[t].pc = "sync_inode"
    /\ StartDrop(t, inode_sync(Cur, threads[t].dest), threads[t], threads[t].dest,
                 "sync_upgrade")

NextLock ==
    \E t \in Threads :
        \/ LkRootInode(t)
        \/ LkCreate(t)
        \/ LkAllocFreeMap(t)
        \/ LkAllocSuperBlock(t)
        \/ LkNewInode(t)
        \/ LkCreateLink(t)
        \/ LkUnlink(t)
        \/ LkDropNew(t)
        \/ LkDropSync(t)
        \/ LkFreeFreeMap(t)
        \/ LkFreeSuperBlock(t)
        \/ LkDropRemove(t)
        \/ LkSyncSuperBlock(t)
        \/ LkSyncFreeMap(t)
        \/ LkSyncFlush(t)
        \/ LkSyncScan(t)
        \/ LkSyncUpgrade(t)
        \/ LkSyncInode(t)

SpecLock == Init /\ [][NextLock]_vars

----------------------------------------------------------------------------
(* Views of the state used by the properties *)

\* The record of inode id: the live instance's if there is one, else the
\* meta-file's.
RecOf(id) ==
    IF Upgrade(Cur, id) THEN heap[id][inodes[id].k].disk_inode ELSE meta_file.inode[id]

\* The same in a state s.
RecIn(s, id) ==
    IF Upgrade(s, id) THEN s.heap[id][s.inodes[id].k].disk_inode ELSE s.meta_file.inode[id]

InUse(id) == ~free_map.val[id]
LiveDirs == {id \in INodeIds : InUse(id) /\ RecOf(id).type_ = "Dir" /\ RecOf(id).nlinks > 0}
EntriesOf(id) == device[id].ents
HasName(id, name) == \E i \in 1 .. Len(EntriesOf(id)) : EntriesOf(id)[i].name = name
\* The directories that hold an entry, other than `.` and `..`, for inode id.
Containers(id) ==
    {p \in LiveDirs : \E i \in 3 .. Len(EntriesOf(p)) : EntriesOf(p)[i].id = id}
FreeCount == Cardinality({i \in BlockIds : free_map.val[i]})
HeldDirs == {r \in Held : TypeOf(Cur, r) = "Dir"}
HeldFiles == {r \in Held : TypeOf(Cur, r) = "File"}

----------------------------------------------------------------------------
(* C1 *)

\* C1: after every successful write_at or resize on a File inode, the inode's
\* in-memory size equals the byte length of its backing file.
C1_SizeIsBackingLength ==
    ~panicked => \A r \in HeldFiles : ObjOf(Cur, r).disk_inode.size = device[r.id].len

----------------------------------------------------------------------------
(* C2 *)

\* C2: move_(old, target, new) fails with EntryExist, changing nothing, whenever
\* the target directory holds an entry named new, and only then: an entry named
\* new in the receiver does not refuse it.  (Stated for calls that pass the
\* checks made before the collision check.)
C2_MoveRefusesTargetCollision ==
    \A r \in HeldDirs, dest \in HeldDirs, old_name \in UserNames, new_name \in Names :
        (NlinksOf(Cur, r) > 0 /\ NlinksOf(Cur, dest) > 0)
        => LET res == move_(Cur, r, old_name, dest, new_name)
           IN IF HasName(dest.id, new_name)
              THEN res.err = "EntryExist" /\ res.st = Cur
              ELSE res.err # "EntryExist"

----------------------------------------------------------------------------
(* C3 *)

\* C3: every live directory has blocks >= 2, entry 0 is `.` with the
\* directory's own id, entry 1 is `..` with the id of the directory that holds
\* it (root's parent is root).
C3_DotAndDotDot ==
    ~panicked =>
    \A id \in LiveDirs :
        /\ RecOf(id).blocks >= 2
        /\ Len(EntriesOf(id)) >= 2
        /\ EntriesOf(id)[1] = DiskEntry(id, ".")
        /\ EntriesOf(id)[2].name = ".."
        /\ id = BLKN_ROOT => EntriesOf(id)[2].id = BLKN_ROOT
        /\ \A p \in Containers(id) : EntriesOf(id)[2].id = p

----------------------------------------------------------------------------
(* C5 *)

\* C5: after every operation (create, unlink, link, rename, move_, inode
\* drop), and after a sync from there, superblock.unused_blocks equals the
\* number of free (TRUE) bits of the free map.
C5_UnusedIsFreeCount ==
    /\ super_block.val.unused_blocks = FreeCount
    /\ LET s == SEFS_sync(Cur).st
       IN s.super_block.val.unused_blocks =
              Cardinality({b \in BlockIds : s.free_map.val[b]})

\* A block was allocated and a lower one freed again.
C5_Witness ==
    /\ ~panicked
    /\ free_map.val[BLKN_ROOT + 1]
    /\ ~free_map.val[BLKN_ROOT + 2]

----------------------------------------------------------------------------
(* C7 *)

\* C7: a step that drops the last handle of an instance: if its nlinks is 0 the
\* block becomes free, unused_blocks grows by one and Storage.remove(id) is
\* called exactly once; if its nlinks > 0 the block stays in use and the
\* backing file is kept.
C7_Step ==
    \A id \in INodeIds, k \in Slots :
        (heap[id][k].alive /\ ~heap'[id][k].alive /\ ~panicked')
        => IF heap[id][k].disk_inode.nlinks <= 0
           THEN /\ ~free_map.val[id] /\ free_map'.val[id]
                /\ super_block'.val.unused_blocks = super_block.val.unused_blocks + 1
                /\ device[id].exists /\ ~device'[id].exists
                /\ arc_drop(Cur, Ref(id, k)).removed = <<id>>
           ELSE /\ ~free_map'.val[id]
                /\ super_block'.val.unused_blocks = super_block.val.unused_blocks
                /\ device'[id] = device[id]
                /\ arc_drop(Cur, Ref(id, k)).removed = << >>

C7_DropFreesZeroLink == [][C7_Step]_vars

\* Inode 3 was dropped with no links (its zero-link record written back, its
\* block freed, its backing file removed) and inode 4 was dropped with a link
\* (its record and backing file kept).
C7_Witness ==
    /\ ~panicked
    /\ free_map.val[BLKN_ROOT + 1]
    /\ meta_file.inode[BLKN_ROOT + 1].type_ = "File"
    /\ meta_file.inode[BLKN_ROOT + 1].nlinks = 0
    /\ ~device[BLKN_ROOT + 1].exists
    /\ InUse(BLKN_ROOT + 2)
    /\ ~Upgrade(Cur, BLKN_ROOT + 2)
    /\ meta_file.inode[BLKN_ROOT + 2].nlinks > 0
    /\ device[BLKN_ROOT + 2].exists

----------------------------------------------------------------------------
(* C8 *)

DirRemovedResult(res) == res.err = "DirRemoved" /\ res.st = Cur

\* The first half of C8: every directory-mutating operation on a directory
\* whose nlinks is 0 fails with DirRemoved and changes nothing.
C8_ReceiverRemoved ==
    \A r \in HeldDirs :
        (~panicked /\ NlinksOf(Cur, r) = 0) =>
            /\ \A name \in Names, type_ \in FileTypes :
                   DirRemovedResult(create(Cur, r, name, type_))
            /\ \A name \in Names : DirRemovedResult(unlink(Cur, r, name))
            /\ \A name \in Names, other \in Held :
                   DirRemovedResult(link(Cur, r, name, other))
            /\ \A old_name \in Names, new_name \in Names :
                   DirRemovedResult(rename(Cur, r, old_name, new_name))
            /\ \A old_name \in Names, new_name \in Names, dest \in Held :
                   DirRemovedResult(move_(Cur, r, old_name, dest, new_name))

\* C8 as written: move_ also fails with DirRemoved whenever the target
\* directory's nlinks is 0.
C8_AsWritten ==
    /\ C8_ReceiverRemoved
    /\ \A r \in HeldDirs, dest \in HeldDirs :
           (~panicked /\ NlinksOf(Cur, dest) = 0) =>
               \A old_name \in Names, new_name \in Names :
                   DirRemovedResult(move_(Cur, r, old_name, dest, new_name))

\* C8 amended: move_ fails with DirRemoved when the target directory's nlinks
\* is 0 and old is neither `.` nor `..`; for those two names a live receiver
\* answers IsDir before it looks at the target.  Nothing changes either way.
C8_DirRemoved ==
    /\ C8_ReceiverRemoved
    /\ \A r \in HeldDirs, dest \in HeldDirs :
           (~panicked /\ NlinksOf(Cur, dest) = 0) =>
               \A old_name \in Names, new_name \in Names :
                   LET res == move_(Cur, r, old_name, dest, new_name)
                   IN /\ res.st = Cur
                      /\ old_name \in UserNames => res.err = "DirRemoved"
                      /\ (old_name \notin UserNames /\ NlinksOf(Cur, r) > 0)
                            => res.err = "IsDir"

\* A removed directory is held together with a live one.
C8_Witness ==
    /\ ~panicked
    /\ \E r \in HeldDirs, dest \in HeldDirs :
          /\ NlinksOf(Cur, r) > 0
          /\ NlinksOf(Cur, dest) = 0
          /\ move_(Cur, r, "a", dest, "b").err = "DirRemoved"
          /\ create(Cur, dest, "a", "File").err = "DirRemoved"

----------------------------------------------------------------------------
(* C9 *)

\* C9: create(name, t), the drop of the handle it returned, then unlink(name)
\* on the same directory bring the free map, unused_blocks and the receiver's
\* nlinks back to what they were before the create.
C9_CreateUnlinkRestores ==
    ~panicked =>
    \A r \in HeldDirs, name \in UserNames, type_ \in FileTypes :
        LET c == create(Cur, r, name, type_)
        IN c.err = "Ok" =>
            LET u == unlink(arc_drop(c.st, c.ref), r, name)
            IN /\ u.err = "Ok"
               /\ u.st.free_map.val = free_map.val
               /\ u.st.super_block.val.unused_blocks = super_block.val.unused_blocks
               /\ NlinksOf(u.st, r) = NlinksOf(Cur, r)

\* A directory was created, dropped and unlinked (its zero-link record is in
\* the meta-file, its block is free again), and a create can succeed again.
C9_Witness ==
    /\ ~panicked
    /\ free_map.val[BLKN_ROOT + 1]
    /\ meta_file.inode[BLKN_ROOT + 1].type_ = "Dir"
    /\ meta_file.inode[BLKN_ROOT + 1].nlinks = 0
    /\ \E r \in HeldDirs : create(Cur, r, "a", "Dir").err = "Ok"

----------------------------------------------------------------------------
(* C10 *)

\* C10: with unused_blocks = 0, alloc_block returns None and leaves
\* unused_blocks and every free-map bit as they were; a create that gets as far
\* as the allocation fails with NoDeviceSpace, adds no entry and changes no
\* link count.
C10_NoDeviceSpace ==
    (~panicked /\ super_block.val.unused_blocks = 0) =>
        /\ ~alloc_block(Cur).some
        /\ alloc_block(Cur).st.free_map.val = free_map.val
        /\ alloc_block(Cur).st.super_block.val = super_block.val
        /\ \A r \in HeldDirs, name \in UserNames, type_ \in FileTypes :
               (NlinksOf(Cur, r) > 0 /\ ~HasName(r.id, name)) =>
                   LET c == create(Cur, r, name, type_)
                   IN /\ c.err = "NoDeviceSpace"
                      /\ c.st.device = device
                      /\ c.st.heap = heap
                      /\ c.st.super_block.val = super_block.val
                      /\ c.st.free_map.val = free_map.val

\* Every block is in use and a live directory with room for the name is held.
C10_Witness ==
    /\ ~panicked
    /\ super_block.val.unused_blocks = 0
    /\ \E r \in HeldDirs, name \in UserNames :
          /\ NlinksOf(Cur, r) > 0
          /\ ~HasName(r.id, name)
          /\ create(Cur, r, name, "File").err = "NoDeviceSpace"

----------------------------------------------------------------------------
(* C4 *)

LiveInstances(id) == {k \in Slots : heap[id][k].alive}

\* C4: at every moment there is at most one live INodeImpl instance per inode
\* id, also when several threads call get_inode(id) at once.
C4_OneInstancePerId ==
    \A id \in INodeIds : Cardinality(LiveInstances(id)) <= 1

----------------------------------------------------------------------------
(* C6 *)

\* C6: two concurrent create(name) calls with the same name on the same
\* directory instance never both succeed.
C6_OneCreateSucceeds ==
    \A t1 \in Threads, t2 \in Threads :
        (/\ t1 # t2
         /\ threads[t1].h # NoRef
         /\ threads[t1].h = threads[t2].h
         /\ threads[t1].name = threads[t2].name
         /\ threads[t1].ret = "Ok")
        => threads[t2].ret # "Ok"

----------------------------------------------------------------------------
(* C11 *)

\* The held directory r is live and its entry `name` is a directory with more
\* than the two entries `.` and `..`.
NonEmptyDirEntry(r, name) ==
    LET e == get_file_inode_and_entry_id(Cur, r, name)
    IN /\ NlinksOf(Cur, r) > 0
       /\ e.found
       /\ e.id \in INodeIds
       /\ InUse(e.id)
       /\ RecOf(e.id).type_ = "Dir"
       /\ Len(EntriesOf(e.id)) > 2

\* C11: unlink(name) of a directory with more than `.` and `..` fails with
\* DirNotEmpty and leaves every backing file (the entries of receiver and
\* target), every inode record (their nlinks), the free map and the superblock
\* unchanged.
C11_DirNotEmpty ==
    ~panicked =>
    \A r \in HeldDirs, name \in UserNames :
        NonEmptyDirEntry(r, name) =>
            LET u == unlink(Cur, r, name)
            IN /\ u.err = "DirNotEmpty"
               /\ u.st.device = device
               /\ u.st.free_map.val = free_map.val
               /\ u.st.super_block.val = super_block.val
               /\ \A id \in INodeIds : RecIn(u.st, id) = RecOf(id)

\* Root is held and its entry `a` is a directory that holds an entry of its
\* own; the directory itself has no live handle, so unlink loads it.
C11_Witness ==
    /\ ~panicked
    /\ \E r \in HeldDirs :
          /\ r.id = BLKN_ROOT
          /\ NonEmptyDirEntry(r, "a")
          /\ ~Upgrade(Cur, get_file_inode_id(Cur, r, "a").id)
          /\ unlink(Cur, r, "a").err = "DirNotEmpty"

----------------------------------------------------------------------------
(* C12 *)

HasNameIn(s, id, name) ==
    \E i \in 1 .. Len(s.device[id].ents) : s.device[id].ents[i].name = name

\* C12: a successful move_(old, target, new) leaves the moved inode's nlinks
\* unchanged; for a directory the receiver's nlinks drops by one and the
\* target's grows by one (net zero when they are the same), for a file both
\* stay; afterwards the receiver has no entry `old` and the target has an entry
\* `new` with the moved inode's id.
C12_MoveLinkCounts ==
    ~panicked =>
    \A r \in HeldDirs, dest \in HeldDirs, old_name \in UserNames, new_name \in Names :
        LET m == move_(Cur, r, old_name, dest, new_name)
            id == get_file_inode_id(Cur, r, old_name).id
        IN m.err = "Ok" =>
            /\ RecIn(m.st, id).nlinks = RecOf(id).nlinks
            /\ IF RecOf(id).type_ = "Dir" /\ r # dest
               THEN /\ NlinksOf(m.st, r) = NlinksOf(Cur, r) - 1
                    /\ NlinksOf(m.st, dest) = NlinksOf(Cur, dest) + 1
               ELSE /\ NlinksOf(m.st, r) = NlinksOf(Cur, r)
                    /\ NlinksOf(m.st, dest) = NlinksOf(Cur, dest)
            /\ ~HasNameIn(m.st, r.id, old_name)
            /\ \E i \in 1 .. Len(m.st.device[dest.id].ents) :
                   m.st.device[dest.id].ents[i] = DiskEntry(id, new_name)

----------------------------------------------------------------------------
(* C13 *)

\* Nothing on the device or in the filesystem's values has changed since
\* SEFS::create.
JustCreated ==
    /\ ~panicked
    /\ device = SEFS_create.device
    /\ meta_file.inode = SEFS_create.meta_file.inode
    /\ super_block.val = SEFS_create.super_block.val
    /\ free_map.val = SEFS_create.free_map.val

\* What open returned: Ok, blocks 0..2 in use and all others free, and a root
\* directory of type Dir, nlinks 2, with exactly `.` and `..`, both the root.
OpenedFresh(o) ==
    /\ o.err = "Ok"
    /\ SuperBlock_check(o.st.super_block.val)
    /\ o.st.free_map.val = [i \in BlockIds |-> i >= 3]
    /\ LET g == root_inode(o.st)
       IN /\ g.err = "Ok"
          /\ TypeOf(g.st, g.ref) = "Dir"
          /\ NlinksOf(g.st, g.ref) = 2
          /\ ObjOf(g.st, g.ref).disk_inode.blocks = 2
          /\ g.st.device[BLKN_ROOT].ents =
                 <<DiskEntry(BLKN_ROOT, "."), DiskEntry(BLKN_ROOT, "..")>>

Synced == ~super_block.dirty /\ ~free_map.dirty

\* C13: opening the device of a filesystem that was just created, after the
\* filesystem was dropped (which syncs it) or synced, passes the magic check
\* and observes the root directory with nlinks 2 and exactly `.` and `..`,
\* blocks 0..2 in use and all others free.
C13_OpenAfterCreate ==
    JustCreated =>
        /\ OpenedFresh(SEFS_open(SEFS_sync(Cur).st))
        /\ Synced => OpenedFresh(SEFS_open(Cur))

\* The created filesystem was synced (or dropped and opened again): the
\* meta-file holds the superblock and the free map, the cache is empty.
C13_Witness ==
    /\ JustCreated
    /\ Synced
    /\ meta_file.super_block = super_block.val
    /\ meta_file.free_map = free_map.val
    /\ \A id \in INodeIds : ~inodes[id].present
    /\ SEFS_open(Cur).err = "Ok"

----------------------------------------------------------------------------
(* C14 *)

\* How often entry e occurs in the sequence ents.
Count(ents, e) == Cardinality({i \in 1 .. Len(ents) : ents[i] = e})

\* ents2 is ents1 without one occurrence of e, as multisets.
MinusOne(ents1, ents2, e) ==
    /\ Len(ents2) = Len(ents1) - 1
    /\ \A i \in 1 .. Len(ents1) :
           Count(ents2, ents1[i]) = Count(ents1, ents1[i]) - (IF ents1[i] = e THEN 1 ELSE 0)

\* C14: after every directory operation a directory inode's `blocks` equals
\* the number of entries in its backing file, and dirent_remove(i) leaves the
\* previous multiset of entries minus the entry that was at slot i.
C14_BlocksIsEntryCount ==
    ~panicked =>
        /\ \A id \in INodeIds :
               (InUse(id) /\ RecOf(id).type_ = "Dir") =>
                   RecOf(id).blocks = Len(EntriesOf(id))
        /\ \A r \in HeldDirs, i \in 0 .. (MaxEntries - 1) :
               i < ObjOf(Cur, r).disk_inode.blocks =>
                   LET d == dirent_remove(Cur, r, i)
                   IN /\ d.err = "Ok"
                      /\ MinusOne(EntriesOf(r.id), d.st.device[r.id].ents,
                                  EntriesOf(r.id)[i + 1])
                      /\ ObjOf(d.st, r).disk_inode.blocks =
                             Len(d.st.device[r.id].ents)

\* A held directory has an entry after `.` and `..`, an entry was removed
\* from some directory before (a block is free again), and removing slot 0
\* moves the last entry there.
C14_Witness ==
    /\ ~panicked
    /\ free_map.val[BLKN_ROOT + 1]
    /\ ~free_map.val[BLKN_ROOT + 2]
    /\ \E r \in HeldDirs :
          /\ ObjOf(Cur, r).disk_inode.blocks = 3
          /\ dirent_remove(Cur, r, 0).st.device[r.id].ents =
                 <<EntriesOf(r.id)[3], EntriesOf(r.id)[2]>>

----------------------------------------------------------------------------
(* C16 *)

\* Directory id has an entry that refers to inode `inode_id`.
RefersTo(id, inode_id) ==
    \E i \in 1 .. Len(EntriesOf(id)) : EntriesOf(id)[i].id = inode_id

\* C16: between the two directory updates of move_ the moved inode's id is
\* found in the receiver or in the target (possibly both, never neither).
C16_NeverNeither ==
    (~panicked /\ threads[1].pc = "move_second") =>
        \/ RefersTo(threads[1].h.id, threads[1].new.id)
        \/ RefersTo(threads[1].dest.id, threads[1].new.id)

\* A move between two different directories is half done: the target already
\* has the new entry and the receiver still has the old one.
C16_Witness ==
    /\ ~panicked
    /\ threads[1].pc = "move_second"
    /\ threads[1].h.id # threads[1].dest.id
    /\ threads[1].new.id \notin {threads[1].h.id, threads[1].dest.id}
    /\ RefersTo(threads[1].h.id, threads[1].new.id)
    /\ \E i \in 1 .. Len(EntriesOf(threads[1].dest.id)) :
           EntriesOf(threads[1].dest.id)[i] = DiskEntry(threads[1].new.id, threads[1].name)

----------------------------------------------------------------------------
(* C17 *)

SuperBlockWritten(s) ==
    ~s.super_block.dirty /\ s.meta_file.super_block = s.super_block.val

FreeMapWritten(s) ==
    ~s.free_map.dirty /\ s.meta_file.free_map = s.free_map.val

Pruned(s) == \A id \in INodeIds : s.inodes[id].present => Upgrade(s, id)

INodesWritten(s) ==
    \A r \in LiveRefs(s) :
        ~ObjOf(s, r).dirty /\ s.meta_file.inode[r.id] = ObjOf(s, r).disk_inode

\* C17: FileSystem::sync writes the superblock, then the free map, then
\* prunes the dead cache entries, then syncs the live inodes; when it
\* returns, superblock, free map and every live inode's record are clean and
\* equal to their meta-file blocks.  Syncing a clean inode writes nothing.
C17_SyncWritesBack ==
    ~panicked =>
        /\ threads[1].pc \in {"sync_free_map", "sync_flush", "sync_inodes", "sync_ret"}
               => SuperBlockWritten(Cur)
        /\ threads[1].pc \in {"sync_flush", "sync_inodes", "sync_ret"}
               => FreeMapWritten(Cur)
        /\ threads[1].pc \in {"sync_inodes", "sync_ret"} => Pruned(Cur)
        /\ threads[1].pc = "sync_ret" => INodesWritten(Cur)
        /\ LET o == SEFS_sync(Cur)
           IN /\ o.err = "Ok"
              /\ SuperBlockWritten(o.st)
              /\ FreeMapWritten(o.st)
              /\ INodesWritten(o.st)
        /\ \A r \in Held : ~ObjOf(Cur, r).dirty => inode_sync(Cur, r) = Cur

\* sync is about to return: on its way it wrote a superblock, a free map and
\* the record of an unlinked file that the client still holds.
C17_Witness ==
    /\ ~panicked
    /\ threads[1].pc = "sync_ret"
    /\ ~free_map.val[BLKN_ROOT + 1]
    /\ \E r \in HeldFiles : r.id = BLKN_ROOT + 1 /\ ObjOf(Cur, r).disk_inode.nlinks = 0
    /\ INodesWritten(Cur)
    /\ meta_file.free_map = free_map.val
    /\ meta_file.super_block = super_block.val

----------------------------------------------------------------------------
(* C15 *)

\* The position of a lock in the documented order.
Rank(lock) ==
    CASE lock = "inodes" -> 1
      [] lock = "disk_inode" -> 2
      [] lock = "free_map" -> 3
      [] lock = "super_block" -> 4

\* C15: the locks a thread holds at once were taken in the order inode
\* cache, per-inode record, free map, superblock: no thread holds a lock that
\* it took after one that comes later in this order.
C15_LockOrder ==
    \A t \in Threads :
        \A i, j \in 1 .. Len(threads[t].held) :
            i < j => Rank(threads[t].held[i].lock) < Rank(threads[t].held[j].lock)

----------------------------------------------------------------------------
(* C18 *)

NoLock == [lock |-> "", mode |-> ""]

\* The lock a thread is about to take, from its position in the code.
Wanted(t) ==
    CASE threads[t].pc \in {"alloc_free_map", "free_free_map", "sync_free_map"}
             -> [lock |-> "free_map", mode |-> "w"]
      [] threads[t].pc \in {"alloc_super_block", "free_super_block"}
             -> [lock |-> "super_block", mode |-> "w"]
      [] threads[t].pc \in {"new_inode", "sync_flush"}
             -> [lock |-> "inodes", mode |-> "w"]
      [] threads[t].pc = "sync_scan" -> [lock |-> "inodes", mode |-> "r"]
      [] OTHER -> NoLock

\* Every thread of S spins on a lock that only threads of S hold.
Deadlocked(S) ==
    /\ S # {}
    /\ \A t \in S :
          /\ Wanted(t) # NoLock
          /\ Blockers(Wanted(t).lock, Wanted(t).mode) # {}
          /\ Blockers(Wanted(t).lock, Wanted(t).mode) \subseteq S

\* C18: no reachable state has a set of threads each waiting for a lock held
\* by another thread of the set (or by itself).
C18_NoDeadlock == ~panicked => \A S \in SUBSET Threads : ~Deadlocked(S)

----------------------------------------------------------------------------
(* C19 *)

\* C19: the backing file of an inode that has a live handle exists in
\* Storage: a drop's remove(id) never takes away the file a new inode with
\* the same id created.
C19_BackingFileKept ==
    ~panicked =>
        \A r \in LiveRefs(Cur) : ObjOf(Cur, r).strong > 0 => device[r.id].exists

----------------------------------------------------------------------------
(* C20 *)

\* The directory entries, over all directories, that refer to inode id.
EntriesFor(id) ==
    {pi \in INodeIds \X (1 .. MaxEntries) :
        /\ InUse(pi[1])
        /\ RecOf(pi[1]).type_ = "Dir"
        /\ pi[2] <= Len(EntriesOf(pi[1]))
        /\ EntriesOf(pi[1])[pi[2]].id = id}

\* The entries of directory id, other than `.` and `..`, that refer to
\* directories.
SubDirs(id) ==
    {i \in 1 .. Len(EntriesOf(id)) :
        /\ EntriesOf(id)[i].name \notin {".", ".."}
        /\ EntriesOf(id)[i].id \in INodeIds
        /\ InUse(EntriesOf(id)[i].id)
        /\ RecOf(EntriesOf(id)[i].id).type_ = "Dir"}

\* C20: link counts equal reference counts: a file's nlinks is the number of
\* directory entries that refer to it, and a directory with nlinks > 0 has
\* nlinks = 2 + the number of its entries that refer to directories.
C20_LinkCounts ==
    ~panicked =>
        \A id \in INodeIds :
            InUse(id) =>
                /\ RecOf(id).type_ = "File" =>
                       RecOf(id).nlinks = Cardinality(EntriesFor(id))
                /\ (RecOf(id).type_ = "Dir" /\ RecOf(id).nlinks > 0) =>
                       RecOf(id).nlinks = 2 + Cardinality(SubDirs(id))

----------------------------------------------------------------------------
(* C21 *)

\* The inode ids the entries of the directories in `from` refer to.
Children(from) ==
    {id \in INodeIds :
        \E p \in from :
            /\ InUse(p)
            /\ RecOf(p).type_ = "Dir"
            /\ \E i \in 1 .. Len(EntriesOf(p)) : EntriesOf(p)[i].id = id}

\* The inode ids found from the root by following directory entries.
RECURSIVE ReachableFrom(_)
ReachableFrom(from) ==
    IF Children(from) \subseteq from THEN from
    ELSE ReachableFrom(from \cup Children(from))

HasLiveHandle(id) == \E r \in Held : r.id = id /\ ObjOf(Cur, r).strong > 0

\* C21: no inode is leaked: every in-use inode id has a live handle or is
\* reachable from the root directory by following directory entries.
C21_NoLeak ==
    ~panicked =>
        \A id \in INodeIds :
            InUse(id) => (HasLiveHandle(id) \/ id \in ReachableFrom({BLKN_ROOT}))

====
